---- MODULE Spec2Model ----
(***************************************************************************)
(* Model of the ingestion pipeline of populate_database.py: main,          *)
(* load_documents, split_documents, add_to_chroma, calculate_chunk_ids,    *)
(* clear_database and verify_database, run against a persisted Chroma      *)
(* collection that is keyed by record identifier.                          *)
(***************************************************************************)
EXTENDS Integers, Sequences, FiniteSets, TLC

VARIABLES
    data,             \* contents of DATA_PATH: one entry per PDF page, in loader order
    store,            \* persisted Chroma collection at CHROMA_PATH: id -> page_content
    pc,               \* position of the running process in main / add_to_chroma
    reset,            \* args.reset of the running process
    documents,        \* main: documents
    chunks,           \* main: chunks (argument of add_to_chroma / calculate_chunk_ids)
    chunks_with_ids,  \* add_to_chroma: chunks_with_ids
    existing_ids,     \* add_to_chroma: existing_ids
    listing,          \* outcome of db.get(include=[]): "none", "ok" or "failed"
    new_chunks,       \* add_to_chroma: new_chunks
    i,                \* add_to_chroma: loop variable of the batch loop
    calls,            \* db.add_documents calls of this run: [ids, ok]
    store_at_start,   \* the store when the process started
    store_before,     \* the store when add_to_chroma was entered
    prev              \* what the previous process did with the same data: "none", "ran", "ran_ok"

vars == <<data, store, pc, reset, documents, chunks, chunks_with_ids, existing_ids,
          listing, new_chunks, i, calls, store_at_start, store_before, prev>>

\* ---- bounds of the model ----
ChunksPerPage == 60  \* chunks the splitter makes of a page that has text
MaxLen == 6          \* length of the chunk sequences given to calculate_chunk_ids alone

\* ---- program constants ----
batch_size == 50
DATA_SOURCE == "data/a.pdf"
None == "None"       \* Python's None; no page id equals it, a page id contains ':'
NoId == ""           \* a chunk whose metadata has no "id" yet

\* the data directories the runs draw from: none, one or two pages, each page
\* with text "x", with text "y" or without extractable text ("")
DataDirs == {<<>>, <<"">>, <<"x">>, <<"y">>, <<"x", "x">>, <<"y", "y">>, <<"", "x">>}

Sources == {"a", "a:0"}
Pages == {0, 1}

EmptyStore == [id \in {} |-> ""]

Min(a, b) == IF a < b THEN a ELSE b

\* ---- str() of a non-negative int ----
Digits == <<"0", "1", "2", "3", "4", "5", "6", "7", "8", "9">>

RECURSIVE FormatInt(_)
FormatInt(n) == IF n < 10 THEN Digits[n + 1]
                ELSE FormatInt(n \div 10) \o Digits[(n % 10) + 1]

\* f"{source}:{page}"
PageId(source, page) == source \o ":" \o FormatInt(page)

\* f"{current_page_id}:{current_chunk_index}"
ChunkId(current_page_id, current_chunk_index) ==
    current_page_id \o ":" \o FormatInt(current_chunk_index)

\* ---- load_documents: one Document per page of the data directory ----
load_documents(d) ==
    [p \in 1..Len(d) |-> [source |-> DATA_SOURCE, page |-> p - 1, page_content |-> d[p]]]

\* ---- split_documents: the chunks of every document, in document order ----
NChunks(content) == IF content = "" THEN 0 ELSE ChunksPerPage

SplitOne(doc) ==
    [k \in 1..NChunks(doc.page_content) |->
        [source |-> doc.source, page |-> doc.page,
         page_content |-> doc.page_content, id |-> NoId]]

RECURSIVE split_documents(_)
split_documents(docs) ==
    IF docs = <<>> THEN <<>>
    ELSE SplitOne(Head(docs)) \o split_documents(Tail(docs))

\* ---- calculate_chunk_ids: the loop, one iteration per chunk ----
NextChunkIndexNoReset(current_page_id, last_page_id, current_chunk_index) ==
    IF current_page_id = last_page_id THEN current_chunk_index + 1 ELSE current_chunk_index

NextChunkIndexNoIncrement(current_page_id, last_page_id, current_chunk_index) == 0

NextChunkIndex(current_page_id, last_page_id, current_chunk_index) ==
    IF current_page_id = last_page_id THEN current_chunk_index + 1 ELSE 0

RECURSIVE CalcIdsLoop(_, _, _, _)
CalcIdsLoop(cs, k, last_page_id, current_chunk_index) ==
    IF k > Len(cs) THEN cs
    ELSE LET current_page_id == PageId(cs[k].source, cs[k].page)
             idx == NextChunkIndex(current_page_id, last_page_id, current_chunk_index)
             chunk_id == ChunkId(current_page_id, idx)
         IN  CalcIdsLoop([cs EXCEPT ![k].id = chunk_id], k + 1, current_page_id, idx)

calculate_chunk_ids(cs) == CalcIdsLoop(cs, 1, None, 0)

\* ---- clear_database ----
clear_database_keeps(s) == s

clear_database(s) == EmptyStore

\* ---- add_to_chroma, pieces ----
\* set(existing_items["ids"]), or set() when db.get raised
ExistingIdsNoFallback(s, ok) == DOMAIN s

ExistingIds(s, ok) == IF ok THEN DOMAIN s ELSE {}

IsNewAlways(chunk, existing) == TRUE

IsNew(chunk, existing) == chunk.id \notin existing

FilterNew(cs, existing) == SelectSeq(cs, LAMBDA c : IsNew(c, existing))

\* new_chunks[i:i + batch_size]
BatchSkipsFirst(nc, from) == SubSeq(nc, from + 2, Min(from + batch_size, Len(nc)))

BatchOneShort(nc, from) == SubSeq(nc, from + 1, Min(from + batch_size - 1, Len(nc)))

Batch(nc, from) == SubSeq(nc, from + 1, Min(from + batch_size, Len(nc)))

BatchIds(batch) == [k \in 1..Len(batch) |-> batch[k].id]

\* db.add_documents(batch, ids=batch_ids) when it succeeds: the collection is
\* keyed by id and a later record of the same id replaces an earlier one
RECURSIVE add_documents(_, _)
add_documents(s, batch) ==
    IF batch = <<>> THEN s
    ELSE LET c == Head(batch)
             s1 == [id \in DOMAIN s \cup {c.id} |->
                       IF id = c.id THEN c.page_content ELSE s[id]]
         IN  add_documents(s1, Tail(batch))

\* ---- the process ----
Init ==
    /\ data = <<>>
    /\ store = EmptyStore
    /\ pc = "start"
    /\ reset \in BOOLEAN
    /\ documents = <<>>
    /\ chunks = <<>>
    /\ chunks_with_ids = <<>>
    /\ existing_ids = {}
    /\ listing = "none"
    /\ new_chunks = <<>>
    /\ i = 0
    /\ calls = <<>>
    /\ store_at_start = EmptyStore
    /\ store_before = EmptyStore
    /\ prev = "none"

MainResetUnconditional ==
    /\ pc = "start"
    /\ store' = clear_database(store)
    /\ prev' = "none"
    /\ pc' = "load"
    /\ UNCHANGED <<data, reset, documents, chunks, chunks_with_ids, existing_ids,
                   listing, new_chunks, i, calls, store_at_start, store_before>>

\* main, lines 26-28: if args.reset: clear_database()
MainReset ==
    /\ pc = "start"
    /\ store' = IF reset THEN clear_database(store) ELSE store
    /\ prev' = IF reset THEN "none" ELSE prev
    /\ pc' = "load"
    /\ UNCHANGED <<data, reset, documents, chunks, chunks_with_ids, existing_ids,
                   listing, new_chunks, i, calls, store_at_start, store_before>>

\* main, line 32: documents = load_documents()
MainLoad ==
    /\ pc = "load"
    /\ documents' = load_documents(data)
    /\ pc' = "split"
    /\ UNCHANGED <<data, store, reset, chunks, chunks_with_ids, existing_ids,
                   listing, new_chunks, i, calls, store_at_start, store_before, prev>>

\* main, line 32 when the loader raises (an unreadable PDF): the process ends
MainLoadRaises ==
    /\ pc = "load"
    /\ data # <<>>
    /\ pc' = "aborted"
    /\ UNCHANGED <<data, store, reset, documents, chunks, chunks_with_ids, existing_ids,
                   listing, new_chunks, i, calls, store_at_start, store_before, prev>>

\* main, line 37: chunks = split_documents(documents)
MainSplit ==
    /\ pc = "split"
    /\ chunks' = split_documents(documents)
    /\ pc' = "add"
    /\ UNCHANGED <<data, store, reset, documents, chunks_with_ids, existing_ids,
                   listing, new_chunks, i, calls, store_at_start, store_before, prev>>

\* add_to_chroma, lines 62-90, with the outcome of db.get
AddToChromaBegin(get_ok) ==
    /\ pc = "add"
    /\ store_before' = store
    /\ chunks_with_ids' = calculate_chunk_ids(chunks)
    /\ listing' = IF get_ok THEN "ok" ELSE "failed"
    /\ existing_ids' = ExistingIds(store, get_ok)
    /\ new_chunks' = FilterNew(chunks_with_ids', existing_ids')
    /\ i' = 0
    /\ pc' = IF Len(new_chunks') = 0 THEN "verify" ELSE "batch"
    /\ UNCHANGED <<data, store, reset, documents, chunks, calls, store_at_start, prev>>

AddToChromaListed == AddToChromaBegin(TRUE)

AddToChromaListingRaises == AddToChromaBegin(FALSE)

\* add_to_chroma, lines 63-66 when Chroma(...) raises: the process ends
ChromaOpenRaises ==
    /\ pc = "add"
    /\ pc' = "aborted"
    /\ UNCHANGED <<data, store, reset, documents, chunks, chunks_with_ids, existing_ids,
                   listing, new_chunks, i, calls, store_at_start, store_before, prev>>

\* add_to_chroma, lines 94-105: one iteration of the batch loop
AddBatch(ok) ==
    /\ pc = "batch"
    /\ i < Len(new_chunks)
    /\ LET batch == Batch(new_chunks, i)
           batch_ids == BatchIds(batch)
       IN  /\ calls' = Append(calls, [ids |-> batch_ids, ok |-> ok])
           /\ store' = IF ok THEN add_documents(store, batch) ELSE store
    /\ i' = i + batch_size
    /\ pc' = IF i' < Len(new_chunks) THEN "batch" ELSE "verify"
    /\ UNCHANGED <<data, reset, documents, chunks, chunks_with_ids, existing_ids,
                   listing, new_chunks, store_at_start, store_before, prev>>

BatchAdded == AddBatch(TRUE)

BatchFailed == AddBatch(FALSE)

\* main, line 46: verify_database() only reads the store and swallows its errors
Verify ==
    /\ pc = "verify"
    /\ pc' = "done"
    /\ UNCHANGED <<data, store, reset, documents, chunks, chunks_with_ids, existing_ids,
                   listing, new_chunks, i, calls, store_at_start, store_before, prev>>

AllCallsOk == \A k \in 1..Len(calls) : calls[k].ok

\* the process has ended; the data directory may change and the script is run again
NextRun(d, r) ==
    /\ pc \in {"done", "aborted"}
    /\ data' = d
    /\ reset' = r
    /\ prev' = IF pc = "done" /\ d = data
               THEN (IF AllCallsOk THEN "ran_ok" ELSE "ran")
               ELSE "none"
    /\ pc' = "start"
    /\ documents' = <<>>
    /\ chunks' = <<>>
    /\ chunks_with_ids' = <<>>
    /\ existing_ids' = {}
    /\ listing' = "none"
    /\ new_chunks' = <<>>
    /\ i' = 0
    /\ calls' = <<>>
    /\ store_at_start' = store
    /\ store_before' = store
    /\ UNCHANGED store

Rerun == \E d \in DataDirs, r \in BOOLEAN : NextRun(d, r)

Next ==
    \/ MainReset
    \/ MainLoad
    \/ MainLoadRaises
    \/ MainSplit
    \/ AddToChromaListed
    \/ AddToChromaListingRaises
    \/ ChromaOpenRaises
    \/ BatchAdded
    \/ BatchFailed
    \/ Verify
    \/ Rerun

Spec == Init /\ [][Next]_vars

\* ---- calculate_chunk_ids on its own, over every short chunk sequence ----
ChunkSeqs ==
    UNION {[1..n -> [source : Sources, page : Pages, page_content : {"x"}, id : {NoId}]] :
              n \in 0..MaxLen}

InitIds ==
    /\ data = <<>>
    /\ store = EmptyStore
    /\ pc = "ids_in"
    /\ reset = FALSE
    /\ documents = <<>>
    /\ chunks \in ChunkSeqs
    /\ chunks_with_ids = <<>>
    /\ existing_ids = {}
    /\ listing = "none"
    /\ new_chunks = <<>>
    /\ i = 0
    /\ calls = <<>>
    /\ store_at_start = EmptyStore
    /\ store_before = EmptyStore
    /\ prev = "none"

\* add_to_chroma, line 69: chunks_with_ids = calculate_chunk_ids(chunks)
AssignIds ==
    /\ pc = "ids_in"
    /\ chunks_with_ids' = calculate_chunk_ids(chunks)
    /\ pc' = "ids_out"
    /\ UNCHANGED <<data, store, reset, documents, chunks, existing_ids, listing,
                   new_chunks, i, calls, store_at_start, store_before, prev>>

NextIds == AssignIds

SpecIds == InitIds /\ [][NextIds]_vars

\* ---- vocabulary of the properties ----
Key(c) == <<c.source, c.page>>

IdsOf(cs) == [k \in 1..Len(cs) |-> cs[k].id]

IdSet(cs) == {cs[k].id : k \in 1..Len(cs)}

\* the first index of the run of equal (source, page) that chunk k ends
RunStart(cs, k) ==
    CHOOSE j \in 1..k :
        /\ \A m \in j..k : Key(cs[m]) = Key(cs[k])
        /\ (j = 1 \/ Key(cs[j - 1]) # Key(cs[k]))

\* chunks of one (source, page) are consecutive
Contiguous(cs) ==
    \A j, k \in 1..Len(cs) :
        (j < k /\ Key(cs[j]) = Key(cs[k])) => \A m \in j..k : Key(cs[m]) = Key(cs[j])

RECURSIVE Flatten(_)
Flatten(ss) == IF ss = <<>> THEN <<>> ELSE Head(ss) \o Flatten(Tail(ss))

SubmittedIds == Flatten([k \in 1..Len(calls) |-> calls[k].ids])

RECURSIVE SumOk(_)
SumOk(cl) ==
    IF cl = <<>> THEN 0
    ELSE (IF Head(cl).ok THEN Len(Head(cl).ids) ELSE 0) + SumOk(Tail(cl))

CeilDiv(n, d) == (n + d - 1) \div d

Count(s) == Cardinality(DOMAIN s)

InAddToChroma == pc \in {"batch", "verify", "done"}

\* chunks_with_ids - existing_ids, by identifier
Diff == IdSet(chunks_with_ids) \ existing_ids

C2_IdsBySequence ==
    pc = "ids_out" =>
        /\ Len(chunks_with_ids) = Len(chunks)
        /\ \A k \in 1..Len(chunks) :
              /\ Key(chunks_with_ids[k]) = Key(chunks[k])
              /\ chunks_with_ids[k].id =
                    ChunkId(PageId(chunks[k].source, chunks[k].page),
                            k - RunStart(chunks, k))
        /\ ((Len(chunks) = 6
                /\ (\A k \in 1..5 : Key(chunks[k]) = <<"a", 0>>)
                /\ Key(chunks[6]) = <<"a", 1>>)
            => IdsOf(chunks_with_ids) = <<"a:0:0", "a:0:1", "a:0:2", "a:0:3", "a:0:4", "a:1:0">>)

C2_Witness ==
    /\ pc = "ids_out"
    /\ IdsOf(chunks_with_ids) = <<"a:0:0", "a:0:1", "a:0:2", "a:0:3", "a:0:4", "a:1:0">>

C4_NeverOverwrites ==
    InAddToChroma =>
        /\ \A k \in 1..Len(SubmittedIds) : SubmittedIds[k] \notin DOMAIN store_before
        /\ \A id \in DOMAIN store_before :
              id \in DOMAIN store /\ store[id] = store_before[id]

\* ---- C5 ----
\* C5: every batch of the run is submitted exactly once whatever failed before
\* it, and at the end the record count has grown by the sum of the sizes of the
\* batches that succeeded.
C5_CountGrowsBySucceeded ==
    pc = "done" =>
        /\ Len(calls) = CeilDiv(Len(new_chunks), batch_size)
        /\ SubmittedIds = IdsOf(new_chunks)
        /\ Count(store) = Count(store_before) + SumOk(calls)

\* ---- C6 ----
\* C6 as stated: when the data directory yields no document, the persisted store
\* is the same after the run as before it, with or without the reset flag.
C6_NoSourceNoMutationAsStated ==
    (pc \in {"done", "aborted"} /\ data = <<>>) => store = store_at_start

\* C6, amended: when the data directory yields no document, the run submits no
\* write; without the reset flag the persisted store is the same after the run
\* as before it, and with the reset flag the store has been cleared before the
\* documents are loaded and is empty after the run.
C6_NoSourceNoWrite ==
    (pc \in {"done", "aborted"} /\ data = <<>>) =>
        /\ calls = <<>>
        /\ store = (IF reset THEN EmptyStore ELSE store_at_start)

C6_Witness ==
    /\ pc = "done"
    /\ data = <<>>
    /\ ~reset
    /\ store_at_start # EmptyStore
    /\ store = store_at_start

\* ---- C7 ----
\* C7: after clear_database the store has no record, and in the ingestion that
\* follows no chunk is excluded as existing: every chunk of the run is submitted
\* for writing.
C7_ResetIsFreshBuild ==
    reset =>
        /\ (pc \in {"load", "split", "add"} => Count(store) = 0)
        /\ (InAddToChroma => store_before = EmptyStore /\ new_chunks = chunks_with_ids)
        /\ (pc = "done" => SubmittedIds = IdsOf(chunks_with_ids))

C7_Witness ==
    /\ reset
    /\ pc = "done"
    /\ Len(chunks_with_ids) > 0
    /\ IdSet(chunks_with_ids) \subseteq DOMAIN store_at_start
    /\ SubmittedIds = IdsOf(chunks_with_ids)

\* ---- C8 ----
\* C8: the n > 0 new chunks are written in ceil(n / 50) calls that carry
\* consecutive slices of new_chunks in order: each call but the last has 50
\* records, the last has between 1 and 50, every new chunk is in exactly one call.
C8_Batches ==
    (pc \in {"verify", "done"} /\ Len(new_chunks) > 0) =>
        /\ Len(calls) = CeilDiv(Len(new_chunks), batch_size)
        /\ \A k \in 1..(Len(calls) - 1) : Len(calls[k].ids) = batch_size
        /\ Len(calls[Len(calls)].ids) \in 1..batch_size
        /\ SubmittedIds = IdsOf(new_chunks)

C8_Witness ==
    /\ pc = "done"
    /\ Len(new_chunks) = 120
    /\ Len(calls) = 3
    /\ Len(calls[1].ids) = 50
    /\ Len(calls[2].ids) = 50
    /\ Len(calls[3].ids) = 20

C10_ListingFailureSubmitsAll ==
    listing = "failed" =>
        /\ pc # "aborted"
        /\ existing_ids = {}
        /\ new_chunks = chunks_with_ids
        /\ (pc = "done" => SubmittedIds = IdsOf(chunks_with_ids))

C10_Witness ==
    /\ listing = "failed"
    /\ pc = "done"
    /\ IdSet(chunks_with_ids) \cap DOMAIN store_before # {}
    /\ SubmittedIds = IdsOf(chunks_with_ids)

====
